---- MODULE Spec2Model ----
(***************************************************************************)
(* docker-reaper: the reaping engine of src/lib.rs (reap_containers,       *)
(* reap_networks, reap_volumes, Resource::remove) against a Docker Engine. *)
(* One behaviour is one orchestrator invocation: the call, the engine's    *)
(* answer to the list request, the concurrent removal futures of each      *)
(* join_all group, and the return.                                         *)
(*                                                                         *)
(* Durations and timestamps are integers (one unit is the clock's tick).   *)
(* Option<T> is a record [some, val]; a Result is a record with a tag.     *)
(***************************************************************************)
EXTENDS Integers, Sequences, FiniteSets, TLC

\* ------------------------------------------------------------- bounds
\* Configured ages are drawn from 0..MaxAge.
MaxAge == 3
\* How many times the engine may answer a request with an injected failure.
MaxFaults == 1
\* How many resources another client of the engine may remove during the call.
MaxExternal == 1
\* The longest Vec<Filter> handed to to_bollard_filters on its own.
MaxFilters == 3

\* ---------------------------------------------------- program constants
\* Duration::ZERO and Duration::MAX (the largest integer TLC represents
\* stands for the largest Duration).
DurationZERO == 0
DurationMAX == 2147483647
\* What the wall clock reads when it is read (SystemTime::now()).
Now == 10

\* ------------------------------------------------------------ options
Some(v) == [some |-> TRUE, val |-> v]
NoneInt == [some |-> FALSE, val |-> 0]
NoneStr == [some |-> FALSE, val |-> ""]
unwrap_or(o, d) == IF o.some THEN o.val ELSE d

\* ------------------------------------------------------------ filters
\* A Filter is [name, value].
Filter(n, v) == [name |-> n, value |-> v]
TEST_LABEL == "docker-reaper-test"

\* Vec<Filter>::to_bollard_filters: a fold that appends each value to the
\* Vec kept under its name. A HashMap is a function on the set of its keys.
RECURSIVE to_bollard_filters_fold(_, _)
to_bollard_filters_fold(fs, acc) ==
    IF fs = <<>> THEN acc
    ELSE LET f == Head(fs)
             old == IF f.name \in DOMAIN acc THEN acc[f.name] ELSE <<>>
             new == [k \in DOMAIN acc \cup {f.name} |->
                        IF k = f.name THEN Append(old, f.value) ELSE acc[k]]
         IN to_bollard_filters_fold(Tail(fs), new)

\* The fold with `insert(name, vec![value])` for `entry(name).or_default()
\* .push(value)`: each name keeps its last value only.
to_bollard_filters_insert(fs) ==
    [k \in {fs[i].name : i \in 1 .. Len(fs)} |->
        LET last == CHOOSE i \in 1 .. Len(fs) :
                        /\ fs[i].name = k
                        /\ \A j \in i + 1 .. Len(fs) : fs[j].name # k
        IN <<fs[last].value>>]

to_bollard_filters(fs) == to_bollard_filters_fold(fs, <<>>)

\* The Vec<Filter> values to_bollard_filters is evaluated on: every sequence
\* of at most MaxFilters filters over two names and two values.
FilterNames == {"label", "name"}
FilterValues == {TEST_LABEL, "color=orange"}
Filters == {Filter(n, v) : n \in FilterNames, v \in FilterValues}
FilterSeqs == UNION {[1 .. n -> Filters] : n \in 0 .. MaxFilters}

\* ------------------------------------------------- the engine's content
\* What the engine's list endpoints report about each resource it may hold.
\* Containers: id, names, created (signed epoch seconds), the names of the
\* attached networks, labels, the volumes it mounts, and its state.
ContainerKeys == {"c1", "c2", "c3", "c4", "c5", "c6", "c7"}
ContainerListing == <<"c1", "c2", "c3", "c4", "c5", "c6", "c7">>

ContainerSummary(k) ==
    CASE k = "c1" -> [id |-> Some("c1"), names |-> Some(<<"/one">>),
                      created |-> Some(Now - 1), networks |-> {"n1"},
                      labels |-> {TEST_LABEL, "color=orange"}, mounts |-> {},
                      state |-> "running"]
      [] k = "c2" -> [id |-> Some("c2"), names |-> Some(<<"/two", "/alias">>),
                      created |-> Some(Now - 2), networks |-> {"n1", "n2"},
                      labels |-> {TEST_LABEL, "color=purple"}, mounts |-> {},
                      state |-> "exited"]
      [] k = "c3" -> [id |-> Some("c3"), names |-> [some |-> FALSE, val |-> <<>>],
                      created |-> Some(Now - 3), networks |-> {},
                      labels |-> {"other"}, mounts |-> {"v3"},
                      state |-> "running"]
      [] k = "c4" -> [id |-> Some("c4"), names |-> Some(<<>>),
                      created |-> NoneInt, networks |-> {"n3"},
                      labels |-> {TEST_LABEL}, mounts |-> {},
                      state |-> "exited"]
      [] k = "c5" -> [id |-> Some("c5"), names |-> Some(<<"/five">>),
                      created |-> Some(-1), networks |-> {},
                      labels |-> {TEST_LABEL}, mounts |-> {},
                      state |-> "running"]
      [] k = "c6" -> [id |-> Some("c6"), names |-> Some(<<"/six">>),
                      created |-> Some(Now + 1), networks |-> {},
                      labels |-> {TEST_LABEL}, mounts |-> {},
                      state |-> "running"]
      [] OTHER    -> [id |-> NoneStr, names |-> Some(<<"/seven">>),
                      created |-> Some(Now - 2), networks |-> {"n3"},
                      labels |-> {TEST_LABEL}, mounts |-> {},
                      state |-> "exited"]

\* A creation timestamp string: text in RFC 3339 form naming an instant, or
\* text that is no timestamp.
Rfc3339(t) == [rfc3339 |-> TRUE, instant |-> t]
Garbage == [rfc3339 |-> FALSE, instant |-> 0]
NoneTs == [some |-> FALSE, val |-> Garbage]

\* chrono::DateTime::parse_from_rfc3339: Ok(instant) or Err.
parse_from_rfc3339(s) ==
    IF s.rfc3339 THEN [ok |-> TRUE, val |-> s.instant] ELSE [ok |-> FALSE, val |-> 0]

\* now.signed_duration_since(t).to_std(): Err when the difference is negative.
signed_duration_to_std(now, t) ==
    IF now - t >= 0 THEN [ok |-> TRUE, val |-> now - t] ELSE [ok |-> FALSE, val |-> 0]

NetworkKeys == {"n1", "n2", "n3", "n4", "n5", "n6", "n7"}
NetworkListing == <<"n1", "n2", "n3", "n4", "n5", "n6", "n7">>

NetworkSummary(k) ==
    CASE k = "n1" -> [name |-> Some("n1"), created |-> Some(Rfc3339(Now - 1)),
                      labels |-> {TEST_LABEL, "color=orange"}]
      [] k = "n2" -> [name |-> Some("n2"), created |-> Some(Rfc3339(Now - 2)),
                      labels |-> {TEST_LABEL, "color=purple"}]
      [] k = "n3" -> [name |-> Some("n3"), created |-> Some(Rfc3339(Now - 3)),
                      labels |-> {"other"}]
      [] k = "n4" -> [name |-> Some("n4"), created |-> NoneTs,
                      labels |-> {TEST_LABEL}]
      [] k = "n5" -> [name |-> Some("n5"), created |-> Some(Garbage),
                      labels |-> {TEST_LABEL}]
      [] k = "n6" -> [name |-> Some("n6"), created |-> Some(Rfc3339(Now + 1)),
                      labels |-> {TEST_LABEL}]
      [] OTHER    -> [name |-> NoneStr, created |-> Some(Rfc3339(Now - 2)),
                      labels |-> {TEST_LABEL}]

VolumeKeys == {"v1", "v2", "v3", "v4", "v5", "v6"}
VolumeListing == <<"v1", "v2", "v3", "v4", "v5", "v6">>

VolumeSummary(k) ==
    CASE k = "v1" -> [name |-> "v1", created_at |-> Some(Rfc3339(Now - 1)),
                      labels |-> {TEST_LABEL, "color=orange"}]
      [] k = "v2" -> [name |-> "v2", created_at |-> Some(Rfc3339(Now - 2)),
                      labels |-> {TEST_LABEL, "color=purple"}]
      [] k = "v3" -> [name |-> "v3", created_at |-> Some(Rfc3339(Now - 3)),
                      labels |-> {"other"}]
      [] k = "v4" -> [name |-> "v4", created_at |-> NoneTs,
                      labels |-> {TEST_LABEL}]
      [] k = "v5" -> [name |-> "v5", created_at |-> Some(Garbage),
                      labels |-> {TEST_LABEL}]
      [] OTHER    -> [name |-> "v6", created_at |-> Some(Rfc3339(Now + 1)),
                      labels |-> {TEST_LABEL}]

\* The engine holds one of these populations when the call starts.
Populations ==
    { [containers |-> {"c1", "c2", "c3"}, networks |-> {"n1", "n2", "n3"},
       volumes |-> {"v1", "v2", "v3"}],
      [containers |-> {"c2", "c4", "c7"}, networks |-> {"n1", "n2", "n3", "n7"},
       volumes |-> {"v2", "v4", "v5"}],
      [containers |-> {"c1", "c5", "c6"}, networks |-> {"n1", "n4", "n5", "n6"},
       volumes |-> {"v1", "v6"}],
      [containers |-> {}, networks |-> {"n1", "n2"}, volumes |-> {"v1", "v2"}] }

\* ------------------------------------------------------------ configs
Durations == 0 .. MaxAge
OptDurations == {NoneInt} \cup {Some(d) : d \in Durations}

FilterChoices ==
    { <<>>,
      <<Filter("label", TEST_LABEL)>>,
      <<Filter("label", TEST_LABEL), Filter("label", "color=orange")>> }

\* ReapContainersConfig; ReapNetworksConfig and ReapVolumesConfig are the
\* same record without reap_networks (kept FALSE here).
ReapContainersConfigs ==
    [dry_run : BOOLEAN, min_age : OptDurations, max_age : OptDurations,
     filters : FilterChoices, reap_networks : BOOLEAN]
ReapNetworksConfigs ==
    [dry_run : BOOLEAN, min_age : OptDurations, max_age : OptDurations,
     filters : FilterChoices, reap_networks : {FALSE}]
ReapVolumesConfigs == ReapNetworksConfigs

\* ------------------------------------------------------------- state
VARIABLES
    pc,                 \* where the orchestrator is: idle, list, join_*, done
    kind,               \* which orchestrator was called
    config,             \* its config
    containers,         \* the engine: the containers it holds
    networks,           \*             the networks
    volumes,            \*             the volumes
    list_calls,         \* list requests the call has sent to the engine
    clock_reads,        \* reads of the wall clock
    eligible_resources, \* the Vec<Resource> built before the dry-run test
    futures,            \* per resource type, the removal futures of its group
    removed_resources,  \* the outputs of the joins completed so far
    result,             \* what the call returned
    faults,             \* injected engine failures so far
    external,           \* removals by another client so far
    initial,            \* the engine's content when the call started
    candidates,         \* the engine's answer to the list request
    overtaken,          \* a removal has completed before one created earlier
    wall_clock,         \* what the call's read of the wall clock gave
    filters_arg,        \* a Vec<Filter> handed to to_bollard_filters
    bollard_filters,    \* what to_bollard_filters returned for it
    resources_arg,      \* two Resources handed to Resource::eq
    eq_result,          \* what Resource::eq returned for them
    every,              \* main: global_args.every
    command,            \* main: global_args.command and global_args.dry_run
    main_pc,            \* main: where the run loop is
    runs,               \* main: iterations of the loop started
    calls,              \* main: reap calls made
    exit_status         \* main: how the process ended: "success", "panic"; "none" before

\* The variables of a library function evaluated on its own.
pure_vars == <<filters_arg, bollard_filters, resources_arg, eq_result>>

\* The variables of the process around the library.
main_vars == <<every, command, main_pc, runs, calls, exit_status>>

vars == <<pc, kind, config, containers, networks, volumes, list_calls,
          clock_reads, eligible_resources, futures, removed_resources,
          result, faults, external, initial, candidates, overtaken,
          wall_clock,
          filters_arg, bollard_filters, resources_arg, eq_result,
          every, command, main_pc, runs, calls, exit_status>>

ResourceTypes == {"Container", "Network", "Volume"}

Resource(t, i, n) == [resource_type |-> t, id |-> i, name |-> n, status |-> "Eligible"]

\* Result<Vec<Resource>, ReapError>, "Pending" until the call returns; a
\* panic unwinds out of the call.
Pending == [tag |-> "Pending", err |-> "", val |-> <<>>]
Ok(v) == [tag |-> "Ok", err |-> "", val |-> v]
Err(e) == [tag |-> "Err", err |-> e, val |-> <<>>]
Panic == [tag |-> "Panic", err |-> "", val |-> <<>>]

NoFutures == [t \in ResourceTypes |-> <<>>]

\* The wall clock as the call has seen it: not read, read, or unavailable.
Unread == [tag |-> "Unread", val |-> 0]
Reading(clock) ==
    IF clock.some THEN [tag |-> "Ok", val |-> clock.val] ELSE [tag |-> "Err", val |-> 0]

\* An Option that holds nothing yet: no map, no bool.
NoneMap == [some |-> FALSE, val |-> <<>>]
NoneBool == [some |-> FALSE, val |-> FALSE]

\* Before an orchestrator is called.
ReapInit ==
    /\ pc = "idle"
    /\ kind = "none"
    /\ config = [dry_run |-> FALSE, min_age |-> NoneInt, max_age |-> NoneInt,
                 filters |-> <<>>, reap_networks |-> FALSE]
    /\ \E p \in Populations :
          /\ containers = p.containers
          /\ networks = p.networks
          /\ volumes = p.volumes
          /\ initial = p
    /\ candidates = <<>>
    /\ overtaken = FALSE
    /\ wall_clock = Unread
    /\ list_calls = 0
    /\ clock_reads = 0
    /\ eligible_resources = <<>>
    /\ futures = NoFutures
    /\ removed_resources = <<>>
    /\ result = Pending
    /\ faults = 0
    /\ external = 0

\* A library function evaluated on its own is handed no arguments yet.
PureIdle ==
    /\ filters_arg = <<>>
    /\ bollard_filters = NoneMap
    /\ resources_arg = <<>>
    /\ eq_result = NoneBool

\* The library called without the process around it.
NoCommand == [kind |-> "none", config |-> <<>>]
MainIdle ==
    /\ every = NoneInt
    /\ command = NoCommand
    /\ main_pc = "none"
    /\ runs = 0
    /\ calls = 0
    /\ exit_status = "none"

Init ==
    /\ ReapInit
    /\ PureIdle
    /\ MainIdle

\* ------------------------------------------------------------ the engine
\* A label filter that lists a resource carrying any one of the values.
EngineMatchesAny(labels, filters) ==
    \A k \in DOMAIN filters :
        k = "label" => \E i \in 1 .. Len(filters[k]) : filters[k][i] \in labels

\* The engine's label filter: a resource is listed when it carries every
\* value given for "label".
EngineMatches(labels, filters) ==
    \A k \in DOMAIN filters :
        k = "label" => \A i \in 1 .. Len(filters[k]) : filters[k][i] \in labels

\* The containers attached to a network, and those mounting a volume.
Endpoints(n) == {k \in containers : n \in ContainerSummary(k).networks}
Users(v) == {k \in containers : v \in ContainerSummary(k).mounts}

\* RemoveContainerOptions left at its default.
RemoveContainerOptionsDefault == [force |-> FALSE]

\* The RemoveContainerOptions of Resource::remove.
RemoveContainerOptions == [force |-> TRUE]

\* The ListContainersOptions of reap_containers, but for the filters.
ListContainersOptions == [all |-> TRUE]

\* The engine's answer to a remove request, as an HTTP status: 204 removed,
\* 404 no such resource, 403 the network has active endpoints, 409 the
\* volume is in use, or the container is running and the removal is not
\* forced.
EngineRemoveCode(t, id) ==
    CASE t = "Container" ->
            IF id \notin containers THEN 404
            ELSE IF ContainerSummary(id).state = "running" /\ ~RemoveContainerOptions.force
                 THEN 409 ELSE 204
      [] t = "Network" -> IF id \notin networks THEN 404
                          ELSE IF Endpoints(id) # {} THEN 403 ELSE 204
      [] OTHER -> IF id \notin volumes THEN 404
                  ELSE IF Users(id) # {} THEN 409 ELSE 204

\* Failures the engine may answer with whatever its content: a removal of
\* the resource already under way (409) and a server error (500).
InjectedCodes == {409, 500}

\* ------------------------------------------------------ Resource::remove
\* The mapping with the volume arm's 404 falling through to Error.
RemovalStatusVolume404(t, code) ==
    CASE t = "Volume" /\ code = 404 -> "Error"
      [] code = 204 -> "Success"
      [] code = 404 -> "Success"
      [] code = 409 -> "InProgress"
      [] OTHER -> "Error"

\* The mapping with the network arm's 409 falling through to Error.
RemovalStatusNetwork409(t, code) ==
    CASE t = "Network" /\ code = 409 -> "Error"
      [] code = 204 -> "Success"
      [] code = 404 -> "Success"
      [] code = 409 -> "InProgress"
      [] OTHER -> "Error"

\* The mapping without the 404 arms.
RemovalStatusNotFoundIsError(t, code) ==
    CASE code = 204 -> "Success"
      [] code = 409 -> "InProgress"
      [] OTHER -> "Error"

\* The mapping with the network arm taking 403 (active endpoints) for a
\* removal that succeeded.
RemovalStatusNetwork403(t, code) ==
    CASE t = "Network" /\ code = 403 -> "Success"
      [] code = 204 -> "Success"
      [] code = 404 -> "Success"
      [] code = 409 -> "InProgress"
      [] OTHER -> "Error"

\* The status Resource::remove records for the engine's answer.
RemovalStatus(t, code) ==
    CASE t = "Container" ->
            (CASE code = 204 -> "Success"
               [] code = 404 -> "Success"
               [] code = 409 -> "InProgress"
               [] OTHER -> "Error")
      [] t = "Network" ->
            (CASE code = 204 -> "Success"
               [] code = 404 -> "Success"
               [] code = 409 -> "InProgress"
               [] OTHER -> "Error")
      [] OTHER ->
            (CASE code = 204 -> "Success"
               [] code = 404 -> "Success"
               [] code = 409 -> "InProgress"
               [] OTHER -> "Error")

\* A removal future: the resource it owns, how far it is (created: not yet
\* polled; requested: the engine has handled the request and its answer is
\* on the way; done: the answer is matched and the status written), and
\* the engine's answer; with how many remove requests it has sent and how
\* many times it has written the status.
Future(r) == [resource |-> r, st |-> "created", code |-> 0,
              requests |-> 0, writes |-> 0]

JoinPc(t) ==
    CASE t = "Container" -> "join_containers"
      [] t = "Network" -> "join_networks"
      [] OTHER -> "join_volumes"

\* The first half of Resource::remove: the remove request reaches the
\* engine, which answers it.
remove_request(t, i) ==
    /\ pc = JoinPc(t)
    /\ i \in 1 .. Len(futures[t])
    /\ futures[t][i].st = "created"
    /\ LET id == futures[t][i].resource.id
           natural == EngineRemoveCode(t, id)
       IN \E code \in {natural} \cup (IF faults < MaxFaults THEN InjectedCodes ELSE {}) :
            /\ futures' = [futures EXCEPT ![t][i].st = "requested", ![t][i].code = code,
                                          ![t][i].requests = @ + 1]
            /\ faults' = IF code = natural THEN faults ELSE faults + 1
            /\ containers' = IF t = "Container" /\ code = 204
                             THEN containers \ {id} ELSE containers
            /\ networks' = IF t = "Network" /\ code = 204
                           THEN networks \ {id} ELSE networks
            /\ volumes' = IF t = "Volume" /\ code = 204
                          THEN volumes \ {id} ELSE volumes
    /\ UNCHANGED <<pc, kind, config, list_calls, clock_reads, eligible_resources,
                   removed_resources, result, external, initial,
                   candidates, overtaken>>
    /\ UNCHANGED wall_clock
    /\ UNCHANGED pure_vars
    /\ UNCHANGED main_vars

\* The second half with a retry: an answer that maps to Error sends the
\* future back to issue its request again.
remove_response_retrying(t, i) ==
    /\ pc = JoinPc(t)
    /\ i \in 1 .. Len(futures[t])
    /\ futures[t][i].st = "requested"
    /\ futures' = [futures EXCEPT
                     ![t][i].st = IF RemovalStatus(t, futures[t][i].code) = "Error"
                                     /\ futures[t][i].requests < 2
                                  THEN "created" ELSE "done",
                     ![t][i].resource.status = RemovalStatus(t, futures[t][i].code),
                     ![t][i].writes = @ + 1]
    /\ overtaken' = (overtaken \/ \E j \in 1 .. i - 1 : futures[t][j].st # "done")
    /\ UNCHANGED <<pc, kind, config, containers, networks, volumes, list_calls,
                   clock_reads, eligible_resources, removed_resources, result,
                   faults, external, initial,
                   candidates>>
    /\ UNCHANGED wall_clock
    /\ UNCHANGED pure_vars
    /\ UNCHANGED main_vars

\* The second half: the answer is matched and the status written.
remove_response(t, i) ==
    /\ pc = JoinPc(t)
    /\ i \in 1 .. Len(futures[t])
    /\ futures[t][i].st = "requested"
    /\ futures' = [futures EXCEPT
                     ![t][i].st = "done",
                     ![t][i].resource.status = RemovalStatus(t, futures[t][i].code),
                     ![t][i].writes = @ + 1]
    /\ overtaken' = (overtaken \/ \E j \in 1 .. i - 1 : futures[t][j].st # "done")
    /\ UNCHANGED <<pc, kind, config, containers, networks, volumes, list_calls,
                   clock_reads, eligible_resources, removed_resources, result,
                   faults, external, initial,
                   candidates>>
    /\ UNCHANGED wall_clock
    /\ UNCHANGED pure_vars
    /\ UNCHANGED main_vars

\* Another client of the same engine removes a resource this call has
\* listed as eligible, between the call's list request and its own remove
\* request for it. The engine refuses to remove a network with endpoints or
\* a volume in use.
other_client_removes(t, i) ==
    /\ pc \in {"join_containers", "join_networks", "join_volumes"}
    /\ external < MaxExternal
    /\ i \in 1 .. Len(futures[t])
    /\ futures[t][i].st = "created"
    /\ EngineRemoveCode(t, futures[t][i].resource.id) = 204
    /\ external' = external + 1
    /\ LET id == futures[t][i].resource.id
       IN /\ containers' = IF t = "Container" THEN containers \ {id} ELSE containers
          /\ networks' = IF t = "Network" THEN networks \ {id} ELSE networks
          /\ volumes' = IF t = "Volume" THEN volumes \ {id} ELSE volumes
    /\ UNCHANGED <<pc, kind, config, list_calls, clock_reads, eligible_resources,
                   futures, removed_resources, result, faults, initial,
                   candidates, overtaken>>
    /\ UNCHANGED wall_clock
    /\ UNCHANGED pure_vars
    /\ UNCHANGED main_vars

\* --------------------------------------------------------- orchestrators
\* An age-window test that lets equal bounds through.
InvalidAgeBoundStrict(cfg) ==
    unwrap_or(cfg.min_age, DurationZERO) > unwrap_or(cfg.max_age, DurationMAX)

\* The age-window test all three orchestrators start with.
InvalidAgeBound(cfg) ==
    unwrap_or(cfg.min_age, DurationZERO) >= unwrap_or(cfg.max_age, DurationMAX)

\* The age filter run whether or not a bound is configured.
AgeConfiguredAlways(cfg) == TRUE

\* The test that guards the age filter and its clock read.
AgeConfigured(cfg) == cfg.max_age.some \/ cfg.min_age.some

\* A window closed at its lower end.
within_age_range_closed(age, cfg) ==
    /\ age >= unwrap_or(cfg.min_age, DurationZERO)
    /\ age < unwrap_or(cfg.max_age, DurationMAX)

within_age_range(age, cfg) ==
    /\ age > unwrap_or(cfg.min_age, DurationZERO)
    /\ age < unwrap_or(cfg.max_age, DurationMAX)

\* The wall clock, when read: a reading, or a system time before the epoch.
ClockReadings == {Some(Now), NoneInt}

\* The permutations of a finite set, as sequences (a HashSet iterates in an
\* order of its own).
Orders(S) ==
    {s \in [1 .. Cardinality(S) -> S] :
        \A i, j \in 1 .. Cardinality(S) : i # j => s[i] # s[j]}

OfType(rs, t) == SelectSeq(rs, LAMBDA r : r.resource_type = t)

\* An orchestrator's entry: the age-window test, then the list request.
Enter(k, cfg) ==
    /\ pc = "idle"
    /\ kind' = k
    /\ config' = cfg
    /\ IF InvalidAgeBound(cfg)
       THEN /\ result' = Err("InvalidAgeBound")
            /\ pc' = "done"
            /\ UNCHANGED list_calls
       ELSE /\ pc' = "list"
            /\ list_calls' = list_calls + 1
            /\ UNCHANGED result
    /\ UNCHANGED <<containers, networks, volumes, clock_reads, eligible_resources,
                   futures, removed_resources, faults, external, initial,
                   candidates, overtaken>>
    /\ UNCHANGED wall_clock
    /\ UNCHANGED pure_vars

\* The library's entry points, called on their own.
reap_containers_call(cfg) == Enter("containers", cfg) /\ UNCHANGED main_vars
reap_networks_call(cfg) == Enter("networks", cfg) /\ UNCHANGED main_vars
reap_volumes_call(cfg) == Enter("volumes", cfg) /\ UNCHANGED main_vars

\* The failure of the list request taken for an empty list
\* (`.await.unwrap_or_default()`).
list_fails_as_empty ==
    /\ pc = "list"
    /\ faults < MaxFaults
    /\ faults' = faults + 1
    /\ result' = Ok(<<>>)
    /\ pc' = "done"
    /\ UNCHANGED <<kind, config, containers, networks, volumes, list_calls,
                   clock_reads, eligible_resources, futures, removed_resources,
                   external, initial,
                   candidates, overtaken>>
    /\ UNCHANGED wall_clock
    /\ UNCHANGED pure_vars
    /\ UNCHANGED main_vars

\* The list request fails: `.await?` returns ReapError::Docker.
list_fails ==
    /\ pc = "list"
    /\ faults < MaxFaults
    /\ faults' = faults + 1
    /\ result' = Err("Docker")
    /\ pc' = "done"
    /\ UNCHANGED <<kind, config, containers, networks, volumes, list_calls,
                   clock_reads, eligible_resources, futures, removed_resources,
                   external, initial,
                   candidates, overtaken>>
    /\ UNCHANGED wall_clock
    /\ UNCHANGED pure_vars
    /\ UNCHANGED main_vars

\* The same without the dry-run return.
ProceedIgnoringDryRun(eligible, first) ==
    /\ eligible_resources' = eligible
    /\ futures' = [t \in ResourceTypes |->
                     [i \in 1 .. Len(OfType(eligible, t)) |->
                         Future(OfType(eligible, t)[i])]]
    /\ pc' = JoinPc(first)
    /\ UNCHANGED result

\* The same awaiting the network group first.
ProceedNetworksFirst(eligible, first) ==
    /\ eligible_resources' = eligible
    /\ IF config.dry_run
       THEN /\ result' = Ok(eligible)
            /\ pc' = "done"
            /\ UNCHANGED futures
       ELSE /\ futures' = [t \in ResourceTypes |->
                            [i \in 1 .. Len(OfType(eligible, t)) |->
                                Future(OfType(eligible, t)[i])]]
            /\ pc' = IF first = "Container" THEN "join_networks" ELSE JoinPc(first)
            /\ UNCHANGED result

\* The same with a dry run returning the resources of the listed type only.
ProceedDryRunListedOnly(eligible, first) ==
    /\ eligible_resources' = eligible
    /\ IF config.dry_run
       THEN /\ result' = Ok(OfType(eligible, first))
            /\ pc' = "done"
            /\ UNCHANGED futures
       ELSE /\ futures' = [t \in ResourceTypes |->
                            [i \in 1 .. Len(OfType(eligible, t)) |->
                                Future(OfType(eligible, t)[i])]]
            /\ pc' = JoinPc(first)
            /\ UNCHANGED result

\* What the orchestrator does with the Vec<Resource> it has built: return it
\* (dry run), or turn each resource into a removal future of its type's
\* group and await the first group.
Proceed(eligible, first) ==
    /\ eligible_resources' = eligible
    /\ IF config.dry_run
       THEN /\ result' = Ok(eligible)
            /\ pc' = "done"
            /\ UNCHANGED futures
       ELSE /\ futures' = [t \in ResourceTypes |->
                            [i \in 1 .. Len(OfType(eligible, t)) |->
                                Future(OfType(eligible, t)[i])]]
            /\ pc' = JoinPc(first)
            /\ UNCHANGED result

\* ---- reap_containers
\* The list request sent without the filters option.
list_containers_unfiltered(cfg) ==
    SelectSeq(ContainerListing, LAMBDA k : k \in containers)

\* docker.list_containers(all: true, filters): every container the engine
\* holds that matches, running or not.
list_containers(cfg) ==
    SelectSeq(ContainerListing,
              LAMBDA k : /\ k \in containers
                         /\ \/ ListContainersOptions.all
                            \/ ContainerSummary(k).state = "running"
                         /\ EngineMatches(ContainerSummary(k).labels,
                                          to_bollard_filters(cfg.filters)))

\* The closure of eligible_containers.retain.
container_retain(c, now, cfg) ==
    IF ~c.created.some THEN FALSE
    ELSE IF c.created.val < 0 THEN FALSE
    ELSE IF now < c.created.val THEN FALSE
    ELSE within_age_range(now - c.created.val, cfg)

container_resource(c) ==
    LET names == IF c.names.some THEN c.names.val ELSE <<>>
    IN Resource("Container", c.id.val,
                IF names = <<>> THEN c.id.val ELSE Head(names))

network_resource(name) == Resource("Network", name, name)

\* The set assigned, not extended: the last container's networks only.
eligible_network_names_last(with_id, cfg) ==
    IF cfg.reap_networks /\ with_id # <<>>
    THEN ContainerSummary(with_id[Len(with_id)]).networks
    ELSE {}

\* The set with the age window applied to the networks themselves.
eligible_network_names_in_window(with_id, cfg) ==
    IF cfg.reap_networks
    THEN {n \in UNION {ContainerSummary(with_id[i]).networks : i \in 1 .. Len(with_id)} :
            \/ ~AgeConfigured(cfg)
            \/ /\ NetworkSummary(n).created.some
               /\ NetworkSummary(n).created.val.rfc3339
               /\ within_age_range(Now - NetworkSummary(n).created.val.instant, cfg)}
    ELSE {}

\* The HashSet of network names the loop over the eligible containers
\* fills: with reap_networks, the keys of each container's networks map.
eligible_network_names(with_id, cfg) ==
    IF cfg.reap_networks
    THEN UNION {ContainerSummary(with_id[i]).networks : i \in 1 .. Len(with_id)}
    ELSE {}

\* The list request is answered: the age filter, the loop that builds the
\* resources and collects the network names, the dry-run return, and the
\* construction of the removal futures.
reap_containers_listed ==
    /\ pc = "list"
    /\ kind = "containers"
    /\ candidates' = list_containers(config)
    /\ \E clock \in (IF AgeConfigured(config) THEN ClockReadings ELSE {Some(Now)}) :
         IF ~clock.some
         THEN /\ clock_reads' = clock_reads + 1
              /\ wall_clock' = Reading(clock)
              /\ result' = Err("InvalidSystemTime")
              /\ pc' = "done"
              /\ UNCHANGED <<eligible_resources, futures>>
         ELSE LET listed == list_containers(config)
                  retained ==
                      IF AgeConfigured(config)
                      THEN SelectSeq(listed,
                               LAMBDA k : container_retain(ContainerSummary(k),
                                                           clock.val, config))
                      ELSE listed
                  with_id == SelectSeq(retained, LAMBDA k : ContainerSummary(k).id.some)
                  eligible_containers ==
                      [i \in 1 .. Len(with_id) |->
                          container_resource(ContainerSummary(with_id[i]))]
              IN /\ clock_reads' = IF AgeConfigured(config)
                                   THEN clock_reads + 1 ELSE clock_reads
                 /\ wall_clock' = IF AgeConfigured(config) THEN Reading(clock) ELSE wall_clock
                 /\ \E order \in Orders(eligible_network_names(with_id, config)) :
                      Proceed(eligible_containers \o
                                [i \in 1 .. Len(order) |-> network_resource(order[i])],
                              "Container")
    /\ UNCHANGED <<kind, config, containers, networks, volumes, list_calls,
                   removed_resources, faults, external, initial, overtaken>>
    /\ UNCHANGED pure_vars
    /\ UNCHANGED main_vars

\* A join that returns as soon as one future of the group is complete.
AnyComplete(fs) == fs = <<>> \/ \E i \in 1 .. Len(fs) : fs[i].st = "done"

\* join_all: complete when every future of the group is, and its output
\* holds the futures' outputs in the order the futures were given.
AllComplete(fs) == \A i \in 1 .. Len(fs) : fs[i].st = "done"

\* Outputs collected last-first.
join_all_reversed(fs) == [i \in 1 .. Len(fs) |-> fs[Len(fs) + 1 - i].resource]

join_all(fs) == [i \in 1 .. Len(fs) |-> fs[i].resource]

\* A join of the container group that fails the call on the first container
\* whose removal ended in Error.
reap_containers_try_joined_containers ==
    /\ pc = "join_containers"
    /\ IF \E i \in 1 .. Len(futures["Container"]) :
             futures["Container"][i].resource.status = "Error"
       THEN /\ result' = Err("Docker")
            /\ pc' = "done"
            /\ UNCHANGED removed_resources
       ELSE /\ AllComplete(futures["Container"])
            /\ removed_resources' = join_all(futures["Container"])
            /\ pc' = "join_networks"
            /\ UNCHANGED result
    /\ UNCHANGED <<kind, config, containers, networks, volumes, list_calls,
                   clock_reads, eligible_resources, futures, faults, external,
                   initial, candidates, overtaken>>
    /\ UNCHANGED wall_clock
    /\ UNCHANGED pure_vars
    /\ UNCHANGED main_vars

\* join_all(container_futures).await returns.
reap_containers_joined_containers ==
    /\ pc = "join_containers"
    /\ AllComplete(futures["Container"])
    /\ removed_resources' = join_all(futures["Container"])
    /\ pc' = "join_networks"
    /\ UNCHANGED <<kind, config, containers, networks, volumes, list_calls,
                   clock_reads, eligible_resources, futures, result, faults,
                   external, initial,
                   candidates, overtaken>>
    /\ UNCHANGED wall_clock
    /\ UNCHANGED pure_vars
    /\ UNCHANGED main_vars

\* join_all(network_futures).await returns, and the call with it.
reap_containers_joined_networks ==
    /\ pc = "join_networks"
    /\ kind = "containers"
    /\ AllComplete(futures["Network"])
    /\ removed_resources' = removed_resources \o join_all(futures["Network"])
    /\ result' = Ok(removed_resources')
    /\ pc' = "done"
    /\ UNCHANGED <<kind, config, containers, networks, volumes, list_calls,
                   clock_reads, eligible_resources, futures, faults, external, initial,
                   candidates, overtaken>>
    /\ UNCHANGED wall_clock
    /\ UNCHANGED pure_vars
    /\ UNCHANGED main_vars

\* ---- reap_networks
list_networks(cfg) ==
    SelectSeq(NetworkListing,
              LAMBDA k : /\ k \in networks
                         /\ EngineMatches(NetworkSummary(k).labels,
                                          to_bollard_filters(cfg.filters)))

\* A closure that keeps a network whose timestamp does not parse.
network_retain_unparsed(n, now, cfg) ==
    IF ~n.name.some THEN FALSE
    ELSE IF ~n.created.some THEN FALSE
    ELSE LET creation_time == parse_from_rfc3339(n.created.val)
         IN IF ~creation_time.ok THEN TRUE
            ELSE LET age == signed_duration_to_std(now, creation_time.val)
                 IN IF ~age.ok THEN FALSE
                    ELSE within_age_range(age.val, cfg)

\* The closure of eligible_networks.retain.
network_retain(n, now, cfg) ==
    IF ~n.name.some THEN FALSE
    ELSE IF ~n.created.some THEN FALSE
    ELSE LET creation_time == parse_from_rfc3339(n.created.val)
         IN IF ~creation_time.ok THEN FALSE
            ELSE LET age == signed_duration_to_std(now, creation_time.val)
                 IN IF ~age.ok THEN FALSE
                    ELSE within_age_range(age.val, cfg)

\* The list request is answered. chrono::Utc::now() panics on a system time
\* before the epoch.
reap_networks_listed ==
    /\ pc = "list"
    /\ kind = "networks"
    /\ candidates' = list_networks(config)
    /\ \E clock \in (IF AgeConfigured(config) THEN ClockReadings ELSE {Some(Now)}) :
         IF ~clock.some
         THEN /\ clock_reads' = clock_reads + 1
              /\ wall_clock' = Reading(clock)
              /\ result' = Panic
              /\ pc' = "done"
              /\ UNCHANGED <<eligible_resources, futures>>
         ELSE LET listed == list_networks(config)
                  retained ==
                      IF AgeConfigured(config)
                      THEN SelectSeq(listed,
                               LAMBDA k : network_retain(NetworkSummary(k),
                                                         clock.val, config))
                      ELSE listed
                  named == SelectSeq(retained, LAMBDA k : NetworkSummary(k).name.some)
                  eligible_networks ==
                      [i \in 1 .. Len(named) |->
                          network_resource(NetworkSummary(named[i]).name.val)]
              IN /\ clock_reads' = IF AgeConfigured(config)
                                   THEN clock_reads + 1 ELSE clock_reads
                 /\ wall_clock' = IF AgeConfigured(config) THEN Reading(clock) ELSE wall_clock
                 /\ Proceed(eligible_networks, "Network")
    /\ UNCHANGED <<kind, config, containers, networks, volumes, list_calls,
                   removed_resources, faults, external, initial, overtaken>>
    /\ UNCHANGED pure_vars
    /\ UNCHANGED main_vars

reap_networks_joined ==
    /\ pc = "join_networks"
    /\ kind = "networks"
    /\ AllComplete(futures["Network"])
    /\ removed_resources' = join_all(futures["Network"])
    /\ result' = Ok(removed_resources')
    /\ pc' = "done"
    /\ UNCHANGED <<kind, config, containers, networks, volumes, list_calls,
                   clock_reads, eligible_resources, futures, faults, external, initial,
                   candidates, overtaken>>
    /\ UNCHANGED wall_clock
    /\ UNCHANGED pure_vars
    /\ UNCHANGED main_vars

\* ---- reap_volumes
list_volumes(cfg) ==
    SelectSeq(VolumeListing,
              LAMBDA k : /\ k \in volumes
                         /\ EngineMatches(VolumeSummary(k).labels,
                                          to_bollard_filters(cfg.filters)))

\* The closure of eligible_volumes.retain.
volume_retain(v, now, cfg) ==
    IF ~v.created_at.some THEN FALSE
    ELSE LET creation_time == parse_from_rfc3339(v.created_at.val)
         IN IF ~creation_time.ok THEN FALSE
            ELSE LET age == signed_duration_to_std(now, creation_time.val)
                 IN IF ~age.ok THEN FALSE
                    ELSE within_age_range(age.val, cfg)

volume_resource(v) == Resource("Volume", v.name, v.name)

\* The list request is answered; the engine reports no volumes as an absent
\* list, and the call returns an empty Vec before it reads the clock.
reap_volumes_listed ==
    /\ pc = "list"
    /\ kind = "volumes"
    /\ candidates' = list_volumes(config)
    /\ LET listed == list_volumes(config)
       IN IF listed = <<>>
          THEN /\ result' = Ok(<<>>)
               /\ pc' = "done"
               /\ UNCHANGED <<clock_reads, wall_clock, eligible_resources, futures>>
          ELSE \E clock \in (IF AgeConfigured(config) THEN ClockReadings ELSE {Some(Now)}) :
                 IF ~clock.some
                 THEN /\ clock_reads' = clock_reads + 1
                      /\ wall_clock' = Reading(clock)
                      /\ result' = Panic
                      /\ pc' = "done"
                      /\ UNCHANGED <<eligible_resources, futures>>
                 ELSE LET retained ==
                              IF AgeConfigured(config)
                              THEN SelectSeq(listed,
                                       LAMBDA k : volume_retain(VolumeSummary(k),
                                                                clock.val, config))
                              ELSE listed
                          eligible_volumes ==
                              [i \in 1 .. Len(retained) |->
                                  volume_resource(VolumeSummary(retained[i]))]
                      IN /\ clock_reads' = IF AgeConfigured(config)
                                           THEN clock_reads + 1 ELSE clock_reads
                         /\ wall_clock' = IF AgeConfigured(config) THEN Reading(clock) ELSE wall_clock
                         /\ Proceed(eligible_volumes, "Volume")
    /\ UNCHANGED <<kind, config, containers, networks, volumes, list_calls,
                   removed_resources, faults, external, initial, overtaken>>
    /\ UNCHANGED pure_vars
    /\ UNCHANGED main_vars

reap_volumes_joined ==
    /\ pc = "join_volumes"
    /\ AllComplete(futures["Volume"])
    /\ removed_resources' = join_all(futures["Volume"])
    /\ result' = Ok(removed_resources')
    /\ pc' = "done"
    /\ UNCHANGED <<kind, config, containers, networks, volumes, list_calls,
                   clock_reads, eligible_resources, futures, faults, external, initial,
                   candidates, overtaken>>
    /\ UNCHANGED wall_clock
    /\ UNCHANGED pure_vars
    /\ UNCHANGED main_vars

\* ------------------------------------------------------------ behaviours
Next ==
    \/ \E cfg \in ReapContainersConfigs : reap_containers_call(cfg)
    \/ \E cfg \in ReapNetworksConfigs : reap_networks_call(cfg)
    \/ \E cfg \in ReapVolumesConfigs : reap_volumes_call(cfg)
    \/ list_fails
    \/ reap_containers_listed
    \/ reap_containers_joined_containers
    \/ reap_containers_joined_networks
    \/ reap_networks_listed
    \/ reap_networks_joined
    \/ reap_volumes_listed
    \/ reap_volumes_joined
    \/ \E t \in ResourceTypes : \E i \in 1 .. Len(futures[t]) : remove_request(t, i)
    \/ \E t \in ResourceTypes : \E i \in 1 .. Len(futures[t]) : remove_response(t, i)
    \/ \E t \in ResourceTypes : \E i \in 1 .. Len(futures[t]) : other_client_removes(t, i)

Spec == Init /\ [][Next]_vars

\* The engine answers every request it is sent and the executor keeps
\* polling the futures it was given: the answer to the list request, a
\* remove request of the group being awaited, its answer, and the return of
\* a complete join_all are each taken if they stay possible.
Fairness ==
    /\ WF_vars(reap_containers_listed)
    /\ WF_vars(reap_networks_listed)
    /\ WF_vars(reap_volumes_listed)
    /\ WF_vars(\E t \in ResourceTypes : \E i \in 1 .. Len(futures[t]) : remove_request(t, i))
    /\ WF_vars(\E t \in ResourceTypes : \E i \in 1 .. Len(futures[t]) : remove_response(t, i))
    /\ WF_vars(reap_containers_joined_containers)
    /\ WF_vars(reap_containers_joined_networks)
    /\ WF_vars(reap_networks_joined)
    /\ WF_vars(reap_volumes_joined)

FairSpec == Init /\ [][Next]_vars /\ Fairness

\* The same without the completion of a removal: the orchestrator and the
\* executor do their part, but a removal future that has sent its request
\* need never complete.
StalledFairness ==
    /\ WF_vars(reap_containers_listed)
    /\ WF_vars(reap_networks_listed)
    /\ WF_vars(reap_volumes_listed)
    /\ WF_vars(\E t \in ResourceTypes : \E i \in 1 .. Len(futures[t]) : remove_request(t, i))
    /\ WF_vars(reap_containers_joined_containers)
    /\ WF_vars(reap_containers_joined_networks)
    /\ WF_vars(reap_networks_joined)
    /\ WF_vars(reap_volumes_joined)

StalledSpec == Init /\ [][Next]_vars /\ StalledFairness

\* --------------------------------------- library functions on their own
\* impl PartialEq for Resource, with the type and id tests swapped for a
\* comparison of every field (what #[derive(PartialEq)] would give).
eq_derived(self, other) == self = other

\* impl PartialEq for Resource.
eq(self, other) ==
    self.resource_type = other.resource_type /\ self.id = other.id

\* The Resources eq is evaluated on: every type and status, two ids, and
\* names that are empty, the id, or something else.
RemovalStatuses == {"Eligible", "Success", "InProgress", "Error"}
ResourceIds == {"c1", "n1"}
ResourceNames == {"", "c1", "/one"}
Resources ==
    [resource_type : ResourceTypes, id : ResourceIds, name : ResourceNames,
     status : RemovalStatuses]

\* One library function is evaluated: to_bollard_filters on a Vec<Filter>,
\* or eq on two Resources.
PureInit ==
    /\ ReapInit
    /\ \/ filters_arg \in FilterSeqs /\ resources_arg = <<>>
       \/ filters_arg = <<>> /\ resources_arg \in Resources \X Resources
    /\ bollard_filters = NoneMap
    /\ eq_result = NoneBool
    /\ MainIdle

to_bollard_filters_returns ==
    /\ resources_arg = <<>>
    /\ ~bollard_filters.some
    /\ bollard_filters' = [some |-> TRUE, val |-> to_bollard_filters(filters_arg)]
    /\ UNCHANGED <<pc, kind, config, containers, networks, volumes, list_calls,
                   clock_reads, eligible_resources, futures, removed_resources,
                   result, faults, external, initial, candidates, overtaken,
                   filters_arg, resources_arg, eq_result>>
    /\ UNCHANGED wall_clock
    /\ UNCHANGED main_vars

eq_returns ==
    /\ resources_arg # <<>>
    /\ ~eq_result.some
    /\ eq_result' = [some |-> TRUE, val |-> eq(resources_arg[1], resources_arg[2])]
    /\ UNCHANGED <<pc, kind, config, containers, networks, volumes, list_calls,
                   clock_reads, eligible_resources, futures, removed_resources,
                   result, faults, external, initial, candidates, overtaken,
                   filters_arg, bollard_filters, resources_arg>>
    /\ UNCHANGED wall_clock
    /\ UNCHANGED main_vars

PureNext ==
    \/ to_bollard_filters_returns
    \/ eq_returns

PureSpec == PureInit /\ [][PureNext]_vars

\* ------------------------------------------------------- the process (main)
MaxRuns == 2

\* --every, --min-age, --max-age: parse_duration accepts positive durations.
EveryChoices == {NoneInt, Some(1)}
CliAges == {NoneInt, Some(1), Some(MaxAge)}

\* The command lines: a subcommand with its arguments and --dry-run.
Commands ==
    [kind : {"containers"},
     config : {c \in ReapContainersConfigs :
                  /\ c.min_age \in CliAges /\ c.max_age \in CliAges
                  /\ c.filters = <<Filter("label", TEST_LABEL)>>
                  /\ c.reap_networks}]
    \cup
    [kind : {"networks", "volumes"},
     config : {c \in ReapNetworksConfigs :
                  /\ c.min_age \in CliAges /\ c.max_age \in CliAges
                  /\ c.filters = <<Filter("label", TEST_LABEL)>>}]

\* main has parsed its arguments and connected to the engine.
MainInit ==
    /\ ReapInit
    /\ PureIdle
    /\ every \in EveryChoices
    /\ command \in Commands
    /\ main_pc = "loop"
    /\ runs = 0
    /\ calls = 0
    /\ exit_status = "none"

\* The top of the loop: "Starting new run".
main_loop ==
    /\ main_pc = "loop"
    /\ runs < MaxRuns
    /\ main_pc' = "call"
    /\ runs' = runs + 1
    /\ UNCHANGED <<pc, kind, config, containers, networks, volumes, list_calls,
                   clock_reads, eligible_resources, futures, removed_resources,
                   result, faults, external, initial, candidates, overtaken,
                   wall_clock, every, command, calls, exit_status>>
    /\ UNCHANGED pure_vars

\* An arm of `match global_args.command`: the config is built from the
\* arguments and the orchestrator is called.
main_reap(k) ==
    /\ main_pc = "call"
    /\ command.kind = k
    /\ Enter(k, command.config)
    /\ main_pc' = "await"
    /\ calls' = calls + 1
    /\ UNCHANGED <<every, command, runs, exit_status>>

main_reap_containers == main_reap("containers")
main_reap_networks == main_reap("networks")
main_reap_volumes == main_reap("volumes")

\* The call has returned: `match result` logs either arm, then the loop
\* sleeps if --every was given and breaks with Ok(()) if not.
main_match_result ==
    /\ main_pc = "await"
    /\ pc = "done"
    /\ result.tag \in {"Ok", "Err"}
    /\ IF every.some
       THEN main_pc' = "sleeping" /\ UNCHANGED exit_status
       ELSE main_pc' = "exited" /\ exit_status' = "success"
    /\ UNCHANGED <<pc, kind, config, containers, networks, volumes, list_calls,
                   clock_reads, eligible_resources, futures, removed_resources,
                   result, faults, external, initial, candidates, overtaken,
                   wall_clock, every, command, runs, calls>>
    /\ UNCHANGED pure_vars

\* The call has panicked: nothing in main catches the unwinding, and the
\* process ends with the exit status of a panic, not of Ok(()).
main_unwinds ==
    /\ main_pc = "await"
    /\ pc = "done"
    /\ result = Panic
    /\ main_pc' = "exited"
    /\ exit_status' = "panic"
    /\ UNCHANGED <<pc, kind, config, containers, networks, volumes, list_calls,
                   clock_reads, eligible_resources, futures, removed_resources,
                   result, faults, external, initial, candidates, overtaken,
                   wall_clock, every, command, runs, calls>>
    /\ UNCHANGED pure_vars

\* sleep(duration) has elapsed: back to the top of the loop, the locals of
\* the last call dropped and the engine as that call left it.
main_sleep_elapsed ==
    /\ main_pc = "sleeping"
    /\ main_pc' = "loop"
    /\ pc' = "idle"
    /\ kind' = "none"
    /\ config' = [dry_run |-> FALSE, min_age |-> NoneInt, max_age |-> NoneInt,
                  filters |-> <<>>, reap_networks |-> FALSE]
    /\ initial' = [containers |-> containers, networks |-> networks,
                   volumes |-> volumes]
    /\ candidates' = <<>>
    /\ overtaken' = FALSE
    /\ wall_clock' = Unread
    /\ list_calls' = 0
    /\ clock_reads' = 0
    /\ eligible_resources' = <<>>
    /\ futures' = NoFutures
    /\ removed_resources' = <<>>
    /\ result' = Pending
    /\ UNCHANGED <<containers, networks, volumes, faults, external,
                   every, command, runs, calls, exit_status>>
    /\ UNCHANGED pure_vars

MainNext ==
    \/ main_loop
    \/ main_reap_containers
    \/ main_reap_networks
    \/ main_reap_volumes
    \/ list_fails
    \/ reap_containers_listed
    \/ reap_containers_joined_containers
    \/ reap_containers_joined_networks
    \/ reap_networks_listed
    \/ reap_networks_joined
    \/ reap_volumes_listed
    \/ reap_volumes_joined
    \/ \E t \in ResourceTypes : \E i \in 1 .. Len(futures[t]) : remove_request(t, i)
    \/ \E t \in ResourceTypes : \E i \in 1 .. Len(futures[t]) : remove_response(t, i)
    \/ \E t \in ResourceTypes : \E i \in 1 .. Len(futures[t]) : other_client_removes(t, i)
    \/ main_match_result
    \/ main_unwinds
    \/ main_sleep_elapsed

MainSpec == MainInit /\ [][MainNext]_vars

\* ================================================================ claims
Futs(t) == futures[t]
Requested(f) == f.st # "created"
Terminal(st) == st \in {"Success", "InProgress", "Error"}

\* C1: in reap_containers, no network removal request reaches the engine
\* before every container removal of the batch has completed, i.e. before
\* every container future is done and its resource has a terminal status.
C1_ContainersBeforeNetworks ==
    (kind = "containers" /\ \E i \in 1 .. Len(Futs("Network")) : Requested(Futs("Network")[i]))
        => \A j \in 1 .. Len(Futs("Container")) :
              /\ Futs("Container")[j].st = "done"
              /\ Terminal(Futs("Container")[j].resource.status)

\* A cascading, non-dry-run call with two containers removed and a network
\* removal requested.
C1_Witness ==
    /\ kind = "containers"
    /\ config.reap_networks
    /\ ~config.dry_run
    /\ Len(Futs("Container")) >= 2
    /\ \E i \in 1 .. Len(Futs("Network")) : Futs("Network")[i].st = "requested"

\* C2: with dry_run set, whichever orchestrator is called, no removal
\* future is ever created (so no remove request is sent), the engine holds
\* what it held when the call started, and every returned resource has
\* status Eligible.
C2_DryRunRemovesNothing ==
    (kind # "none" /\ config.dry_run) =>
        /\ futures = NoFutures
        /\ removed_resources = <<>>
        /\ containers = initial.containers
        /\ networks = initial.networks
        /\ volumes = initial.volumes
        /\ result.tag = "Ok" =>
              \A i \in 1 .. Len(result.val) : result.val[i].status = "Eligible"

\* A dry run of reap_containers has returned containers and a network.
C2_Witness ==
    /\ kind = "containers"
    /\ config.dry_run
    /\ result.tag = "Ok"
    /\ \E i, j \in 1 .. Len(result.val) :
          /\ result.val[i].resource_type = "Container"
          /\ result.val[j].resource_type = "Network"
          /\ result.val[j].id \in networks

\* C3: a config whose min_age (absent: zero) is at least its max_age
\* (absent: the largest duration) makes the call return InvalidAgeBound
\* with no list request, no clock read and no removal; and a config that
\* got past the test with both bounds present has min_age < max_age.
C3_InvalidAgeBound ==
    kind # "none" =>
        LET lo == IF config.min_age.some THEN config.min_age.val ELSE 0
            hi == IF config.max_age.some THEN config.max_age.val ELSE DurationMAX
        IN /\ lo >= hi =>
                /\ pc = "done"
                /\ result = Err("InvalidAgeBound")
                /\ list_calls = 0
                /\ clock_reads = 0
                /\ candidates = <<>>
                /\ futures = NoFutures
                /\ containers = initial.containers
                /\ networks = initial.networks
                /\ volumes = initial.volumes
           /\ (result # Err("InvalidAgeBound") /\ config.min_age.some /\ config.max_age.some)
                => config.min_age.val < config.max_age.val

\* max_age = 0 with min_age absent was rejected.
C3_Witness ==
    /\ kind # "none"
    /\ ~config.min_age.some
    /\ config.max_age = Some(0)
    /\ result = Err("InvalidAgeBound")

\* The resource type the called orchestrator lists, and the engine's set of it.
ListedType ==
    CASE kind = "containers" -> "Container"
      [] kind = "networks" -> "Network"
      [] OTHER -> "Volume"
Held(t) ==
    CASE t = "Container" -> containers
      [] t = "Network" -> networks
      [] OTHER -> volumes

\* The age of candidate k at the clock's reading when its listing carries an
\* identifier and a valid creation time that is not in the future; -1 when
\* it does not.
AgeOf(k) ==
    CASE kind = "containers" ->
            LET c == ContainerSummary(k)
            IN IF c.id.some /\ c.created.some /\ c.created.val >= 0 /\ c.created.val <= Now
               THEN Now - c.created.val ELSE -1
      [] kind = "networks" ->
            LET n == NetworkSummary(k)
            IN IF n.name.some /\ n.created.some /\ n.created.val.rfc3339
                  /\ n.created.val.instant <= Now
               THEN Now - n.created.val.instant ELSE -1
      [] OTHER ->
            LET v == VolumeSummary(k)
            IN IF v.created_at.some /\ v.created_at.val.rfc3339
                  /\ v.created_at.val.instant <= Now
               THEN Now - v.created_at.val.instant ELSE -1

In(rs, t, id) == \E j \in 1 .. Len(rs) : rs[j].resource_type = t /\ rs[j].id = id
FutureOf(t, id) == {j \in 1 .. Len(Futs(t)) : Futs(t)[j].resource.id = id}

\* C4: with an age bound configured, a candidate with a valid creation time
\* is eligible (and returned) iff min < age < max, both strict, with min = 0
\* and max = the largest duration when absent; a candidate outside the open
\* window, its ends included, gets no removal future and stays in the
\* engine, and one inside has had its removal completed when a non-dry run
\* returns.
C4_OpenAgeWindow ==
    (pc \notin {"idle", "list"} /\ AgeConfigured(config) /\ result.tag \in {"Pending", "Ok"}) =>
        \A i \in 1 .. Len(candidates) :
            LET k == candidates[i]
                age == AgeOf(k)
                lo == IF config.min_age.some THEN config.min_age.val ELSE 0
                hi == IF config.max_age.some THEN config.max_age.val ELSE DurationMAX
                inside == lo < age /\ age < hi
            IN age >= 0 =>
                /\ inside <=> In(eligible_resources, ListedType, k)
                /\ result.tag = "Ok" => (inside <=> In(result.val, ListedType, k))
                /\ ~inside => (FutureOf(ListedType, k) = {} /\ k \in Held(ListedType))
                /\ (inside /\ result.tag = "Ok" /\ ~config.dry_run) =>
                      \E j \in FutureOf(ListedType, k) : Futs(ListedType)[j].st = "done"

\* A call has returned with one candidate exactly min_age old and one
\* exactly max_age old left out, and one strictly between them returned.
C4_Witness ==
    /\ result.tag = "Ok"
    /\ config.min_age.some
    /\ config.max_age.some
    /\ \E a, b, c \in 1 .. Len(candidates) :
          /\ AgeOf(candidates[a]) = config.min_age.val
          /\ AgeOf(candidates[b]) = config.max_age.val
          /\ AgeOf(candidates[c]) > config.min_age.val
          /\ AgeOf(candidates[c]) < config.max_age.val
          /\ ~In(result.val, ListedType, candidates[a])
          /\ ~In(result.val, ListedType, candidates[b])
          /\ In(result.val, ListedType, candidates[c])

\* C5: for every resource type, a removal the engine answered with 404 (no
\* such resource) leaves the resource with status Success.
C5_NotFoundIsSuccess ==
    \A t \in ResourceTypes : \A i \in 1 .. Len(Futs(t)) :
        (Futs(t)[i].st = "done" /\ Futs(t)[i].code = 404)
            => Futs(t)[i].resource.status = "Success"

\* A call has returned a resource that another client had removed before
\* the call's own request, which the engine answered with 404.
C5_Witness ==
    /\ result.tag = "Ok"
    /\ \E t \in ResourceTypes : \E i \in 1 .. Len(Futs(t)) :
          /\ Futs(t)[i].code = 404
          /\ Futs(t)[i].resource.id \notin Held(t)
          /\ \E j \in 1 .. Len(result.val) :
                /\ result.val[j].resource_type = t
                /\ result.val[j].id = Futs(t)[i].resource.id
                /\ result.val[j].status = "Success"

C7_ErrorNeverAborts ==
    /\ \A t \in ResourceTypes : \A i \in 1 .. Len(Futs(t)) :
          (Futs(t)[i].st = "done" /\ Futs(t)[i].code \notin {204, 404, 409})
              => Futs(t)[i].resource.status = "Error"
    /\ (pc = "done" /\ futures # NoFutures) =>
          /\ result.tag = "Ok"
          /\ Len(result.val) = Len(eligible_resources)
          /\ \A j \in 1 .. Len(result.val) : Terminal(result.val[j].status)
          /\ \A t \in ResourceTypes : \A i \in 1 .. Len(Futs(t)) : Futs(t)[i].st = "done"

\* reap_containers has returned Ok after one container removal ended in
\* Error, another container was removed, and a network removal was answered.
C7_Witness ==
    /\ kind = "containers"
    /\ result.tag = "Ok"
    /\ \E i, j \in 1 .. Len(Futs("Container")) :
          /\ Futs("Container")[i].code = 500
          /\ Futs("Container")[i].resource.status = "Error"
          /\ Futs("Container")[j].resource.status = "Success"
    /\ \E n \in 1 .. Len(Futs("Network")) : Futs("Network")[n].st = "done"

Ids(rs) == {rs[i].id : i \in 1 .. Len(rs)}
SameResource(a, b) ==
    a.resource_type = b.resource_type /\ a.id = b.id /\ a.name = b.name

\* The names of the networks attached to the containers of rs.
AttachedTo(rs) ==
    UNION {ContainerSummary(rs[i].id).networks : i \in 1 .. Len(rs)}

\* What C8 says of a Vec<Resource> rs built or returned by reap_containers.
CascadeOf(rs) ==
    LET conts == OfType(rs, "Container")
        nets == OfType(rs, "Network")
    IN IF config.reap_networks
       THEN /\ Ids(nets) = AttachedTo(conts)
            /\ Len(nets) = Cardinality(AttachedTo(conts))
            /\ \A i \in 1 .. Len(nets) : nets[i].name = nets[i].id
       ELSE nets = <<>>

\* C8: in reap_containers with reap_networks set, the Network resources are
\* exactly the names of the networks attached to the eligible containers,
\* each once, with id = name; with reap_networks unset there is no Network
\* resource and no network removal future.
C8_CascadedNetworks ==
    (kind = "containers" /\ pc \notin {"idle", "list"} /\ result.tag \in {"Pending", "Ok"}) =>
        /\ CascadeOf(eligible_resources)
        /\ result.tag = "Ok" => CascadeOf(result.val)
        /\ ~config.reap_networks => Futs("Network") = <<>>

\* reap_containers has returned two containers attached to the same
\* network, and that network once.
C8_Witness ==
    /\ kind = "containers"
    /\ config.reap_networks
    /\ result.tag = "Ok"
    /\ \E a, b \in 1 .. Len(result.val) :
          /\ a # b
          /\ result.val[a].resource_type = "Container"
          /\ result.val[b].resource_type = "Container"
          /\ \E n \in ContainerSummary(result.val[a].id).networks
                      \cap ContainerSummary(result.val[b].id).networks :
                Cardinality({j \in 1 .. Len(result.val) :
                                /\ result.val[j].resource_type = "Network"
                                /\ result.val[j].id = n}) = 1

\* The containers the engine held attached to network n when the call started.
AttachedAtStart(n) == {k \in initial.containers : n \in ContainerSummary(k).networks}

\* C9: when reap_containers with reap_networks set and dry_run unset has
\* returned and the engine answered no request with an injected failure,
\* then for every network N whose attached containers were all eligible,
\* the call returned Ok and the engine holds neither those containers nor N.
C9_CascadeRemovesNetwork ==
    (pc = "done" /\ kind = "containers" /\ config.reap_networks /\ ~config.dry_run
        /\ faults = 0) =>
        \A n \in NetworkKeys :
            (/\ AttachedAtStart(n) # {}
             /\ \A k \in AttachedAtStart(n) : In(eligible_resources, "Container", k))
            => /\ result.tag = "Ok"
               /\ n \notin networks
               /\ AttachedAtStart(n) \cap containers = {}

\* Two containers attached to one network were both eligible, and the call
\* has returned with the containers and the network gone from the engine.
C9_Witness ==
    /\ pc = "done"
    /\ kind = "containers"
    /\ config.reap_networks
    /\ ~config.dry_run
    /\ faults = 0
    /\ external = 0
    /\ result.tag = "Ok"
    /\ \E n \in initial.networks :
          /\ Cardinality(AttachedAtStart(n)) = 2
          /\ \A k \in AttachedAtStart(n) : In(eligible_resources, "Container", k)
          /\ n \notin networks
          /\ AttachedAtStart(n) \cap containers = {}

\* C10: the list a non-dry-run call returns holds the resources of the
\* eligible list at the same positions (containers first, then the cascaded
\* networks), only the statuses differing, in whatever order the removals
\* completed; every future owns the resource of its position in its group.
C10_InputOrderKept ==
    /\ (pc \in {"join_containers", "join_networks", "join_volumes"} /\ ~config.dry_run) =>
          \A t \in ResourceTypes :
             /\ Len(Futs(t)) = Len(OfType(eligible_resources, t))
             /\ \A i \in 1 .. Len(Futs(t)) :
                   SameResource(Futs(t)[i].resource, OfType(eligible_resources, t)[i])
    /\ (result.tag = "Ok" /\ ~config.dry_run) =>
          /\ Len(result.val) = Len(eligible_resources)
          /\ \A i \in 1 .. Len(result.val) :
                SameResource(result.val[i], eligible_resources[i])
          /\ \A i, j \in 1 .. Len(result.val) :
                (result.val[i].resource_type = "Container"
                    /\ result.val[j].resource_type = "Network") => i < j

\* A call has returned containers and networks after a removal completed
\* before one created earlier.
C10_Witness ==
    /\ result.tag = "Ok"
    /\ ~config.dry_run
    /\ overtaken
    /\ Len(OfType(result.val, "Container")) >= 2
    /\ Len(OfType(result.val, "Network")) >= 2
    /\ \E i, j \in 1 .. Len(result.val) : result.val[i].status # result.val[j].status

\* The values given for name k in fs, in the order of fs.
ValuesOf(fs, k) ==
    LET sub == SelectSeq(fs, LAMBDA f : f.name = k)
    IN [i \in 1 .. Len(sub) |-> sub[i].value]

\* C11: the map to_bollard_filters returns has exactly the names present
\* in the Vec<Filter> as keys, and under each name the values given for it,
\* in input order with duplicates kept; no value of the input is missing
\* and no key maps to an empty Vec.
C11_FiltersGroupedInOrder ==
    bollard_filters.some =>
        LET m == bollard_filters.val
        IN /\ DOMAIN m = {filters_arg[i].name : i \in 1 .. Len(filters_arg)}
           /\ \A k \in DOMAIN m :
                 /\ m[k] = ValuesOf(filters_arg, k)
                 /\ m[k] # <<>>
           /\ \A i \in 1 .. Len(filters_arg) :
                 \E j \in 1 .. Len(m[filters_arg[i].name]) :
                    m[filters_arg[i].name][j] = filters_arg[i].value

\* to_bollard_filters has returned a map with two keys for a Vec<Filter>
\* that gives one name the same value twice, around a filter of another name.
C11_Witness ==
    /\ bollard_filters.some
    /\ Len(filters_arg) = 3
    /\ filters_arg[1] = filters_arg[3]
    /\ filters_arg[2].name # filters_arg[1].name
    /\ Cardinality(DOMAIN bollard_filters.val) = 2
    /\ bollard_filters.val[filters_arg[1].name]
          = <<filters_arg[1].value, filters_arg[1].value>>

\* The labels of resource k of the listed type, and what the engine held of
\* that type when the call started.
LabelsOf(k) ==
    CASE kind = "containers" -> ContainerSummary(k).labels
      [] kind = "networks" -> NetworkSummary(k).labels
      [] OTHER -> VolumeSummary(k).labels
HeldAtStart ==
    CASE kind = "containers" -> initial.containers
      [] kind = "networks" -> initial.networks
      [] OTHER -> initial.volumes

\* The engine has answered the call's list request.
Listed ==
    /\ pc \notin {"idle", "list"}
    /\ result \notin {Err("InvalidAgeBound"), Err("Docker")}

OrangeFilters == <<Filter("label", TEST_LABEL), Filter("label", "color=orange")>>
IsOrange(k) == TEST_LABEL \in LabelsOf(k) /\ "color=orange" \in LabelsOf(k)

\* The containers that kept resource k of the listed type in use when the
\* call started (the engine refuses to remove a network with endpoints or a
\* volume in use).
InUseAtStart(k) ==
    CASE kind = "containers" -> {}
      [] kind = "networks" -> AttachedAtStart(k)
      [] OTHER -> {c \in initial.containers : k \in ContainerSummary(c).mounts}

\* C13: in a non-dry-run call of any orchestrator with the filters
\* [label=TEST_LABEL, label=color=orange], a resource of the listed type
\* that lacks one of the two labels (the purple one carries the test label
\* only) gets no removal future and stays in the engine; and when the call,
\* made without age bounds and answered with no injected failure, has
\* returned, the engine no longer holds the resources carrying both labels
\* that nothing kept in use.
C13_OnlyOrangeRemoved ==
    (kind # "none" /\ ~config.dry_run /\ config.filters = OrangeFilters) =>
        /\ \A k \in HeldAtStart :
              ~IsOrange(k) => (k \in Held(ListedType) /\ FutureOf(ListedType, k) = {})
        /\ (result.tag = "Ok" /\ faults = 0 /\ ~AgeConfigured(config)) =>
              \A k \in HeldAtStart :
                 (IsOrange(k) /\ InUseAtStart(k) = {}) => k \notin Held(ListedType)

\* reap_networks has returned: the orange network is gone and the purple
\* network, which carries the test label, is still held.
C13_Witness ==
    /\ kind = "networks"
    /\ ~config.dry_run
    /\ config.filters = OrangeFilters
    /\ result.tag = "Ok"
    /\ external = 0
    /\ \E k \in HeldAtStart : IsOrange(k) /\ k \notin networks
    /\ \E k \in HeldAtStart :
          /\ TEST_LABEL \in LabelsOf(k)
          /\ "color=purple" \in LabelsOf(k)
          /\ k \in networks

\* C14: reap_containers is given every container the engine holds that
\* matches the filters, running or not, and its removal requests are
\* forced: unless the answer is an injected failure, the engine removes the
\* container or no longer holds it, so that when the call has returned
\* every eligible container, the running ones included, is gone.
C14_RunningContainersRemoved ==
    (kind = "containers" /\ Listed) =>
        /\ \A k \in initial.containers :
              EngineMatches(LabelsOf(k), to_bollard_filters(config.filters))
                 => \E c \in 1 .. Len(candidates) : candidates[c] = k
        /\ faults = 0 =>
              \A i \in 1 .. Len(Futs("Container")) :
                 Requested(Futs("Container")[i]) => Futs("Container")[i].code \in {204, 404}
        /\ (result.tag = "Ok" /\ ~config.dry_run /\ faults = 0) =>
              \A i \in 1 .. Len(eligible_resources) :
                 eligible_resources[i].resource_type = "Container"
                    => eligible_resources[i].id \notin containers

\* reap_containers has returned after the engine removed, at the call's
\* request, a running container and one that was not running.
C14_Witness ==
    /\ kind = "containers"
    /\ result.tag = "Ok"
    /\ \E i, j \in 1 .. Len(Futs("Container")) :
          /\ ContainerSummary(Futs("Container")[i].resource.id).state = "running"
          /\ ContainerSummary(Futs("Container")[j].resource.id).state = "exited"
          /\ Futs("Container")[i].code = 204
          /\ Futs("Container")[j].code = 204
          /\ Futs("Container")[i].resource.status = "Success"
          /\ Futs("Container")[j].resource.status = "Success"
          /\ Futs("Container")[i].resource.id \notin containers
          /\ Futs("Container")[j].resource.id \notin containers

\* What is wrong with the creation time the engine reports for resource k
\* of the listed type: "missing"; "negative" (containers); "unparseable"
\* (networks and volumes); "future"; or "none".
CreationFault(k) ==
    CASE kind = "containers" ->
            LET c == ContainerSummary(k)
            IN IF ~c.created.some THEN "missing"
               ELSE IF c.created.val < 0 THEN "negative"
               ELSE IF c.created.val > Now THEN "future" ELSE "none"
      [] kind = "networks" ->
            LET n == NetworkSummary(k)
            IN IF ~n.created.some THEN "missing"
               ELSE IF ~n.created.val.rfc3339 THEN "unparseable"
               ELSE IF n.created.val.instant > Now THEN "future" ELSE "none"
      [] OTHER ->
            LET v == VolumeSummary(k)
            IN IF ~v.created_at.some THEN "missing"
               ELSE IF ~v.created_at.val.rfc3339 THEN "unparseable"
               ELSE IF v.created_at.val.instant > Now THEN "future" ELSE "none"

\* The candidates with creation fault f.
Faulty(f) == {i \in 1 .. Len(candidates) : CreationFault(candidates[i]) = f}

\* C15: with an age bound configured and the clock read, a candidate whose
\* creation time is missing, negative, unparseable or in the future is not
\* in the eligible list nor in the returned one, gets no removal future
\* and stays in the engine, and the call goes on to return Ok.
C15_BadCreationSkipped ==
    (Listed /\ AgeConfigured(config) /\ wall_clock.tag = "Ok") =>
        /\ result.tag \in {"Pending", "Ok"}
        /\ pc = "done" => result.tag = "Ok"
        /\ \A i \in 1 .. Len(candidates) :
              CreationFault(candidates[i]) # "none" =>
                 /\ ~In(eligible_resources, ListedType, candidates[i])
                 /\ ~In(result.val, ListedType, candidates[i])
                 /\ FutureOf(ListedType, candidates[i]) = {}
                 /\ candidates[i] \in Held(ListedType)

\* reap_networks, called with an age bound, has returned a network it
\* removed, the engine having also listed a network with no creation
\* time, one whose timestamp does not parse and one created in the future.
C15_Witness ==
    /\ kind = "networks"
    /\ AgeConfigured(config)
    /\ ~config.dry_run
    /\ result.tag = "Ok"
    /\ result.val # <<>>
    /\ Faulty("missing") # {}
    /\ Faulty("unparseable") # {}
    /\ Faulty("future") # {}

\* The engine reports resource k of the listed type without the field its
\* Resource id is taken from (a container's id, a network's name).
MissingIdentity(k) ==
    CASE kind = "containers" -> ~ContainerSummary(k).id.some
      [] kind = "networks" -> ~NetworkSummary(k).name.some
      [] OTHER -> FALSE

HasAgeBound == config.min_age.some \/ config.max_age.some

\* The call has the engine's list and, if it needed the clock, its reading.
Enumerated == Listed /\ (HasAgeBound => wall_clock.tag = "Ok")

\* C16 as stated: whatever the config, a candidate with a bad or missing
\* creation time, or without id or name, is not eligible, is not returned
\* and gets no removal future, and the call does not fail.
C16_MalformedAlwaysExcluded ==
    Enumerated =>
        /\ result.tag \in {"Pending", "Ok"}
        /\ \A i \in 1 .. Len(candidates) :
              (MissingIdentity(candidates[i]) \/ CreationFault(candidates[i]) # "none") =>
                 /\ ~In(eligible_resources, ListedType, candidates[i])
                 /\ ~In(result.val, ListedType, candidates[i])
                 /\ FutureOf(ListedType, candidates[i]) = {}

\* C16, amended: whatever the config, a candidate without id (container)
\* or name (network) yields no Resource: every eligible resource of the
\* listed type comes from a candidate that has one, at most one each. A
\* candidate with a bad or missing creation time is left out only when an
\* age bound is configured; without one it is eligible like any other
\* candidate and, unless the run is dry, gets a removal future. In neither
\* case does the call fail.
C16_MalformedExcludedWhenExamined ==
    Enumerated =>
        LET mine == OfType(eligible_resources, ListedType)
            identified == {i \in 1 .. Len(candidates) : ~MissingIdentity(candidates[i])}
        IN /\ result.tag \in {"Pending", "Ok"}
           /\ \A j \in 1 .. Len(mine) : \E i \in identified : mine[j].id = candidates[i]
           /\ \A j \in 1 .. Len(mine) : mine[j].id # ""
           /\ Len(mine) <= Cardinality(identified)
           /\ \A i \in identified :
                 CreationFault(candidates[i]) # "none" =>
                    IF HasAgeBound
                    THEN /\ ~In(eligible_resources, ListedType, candidates[i])
                         /\ FutureOf(ListedType, candidates[i]) = {}
                    ELSE /\ In(eligible_resources, ListedType, candidates[i])
                         /\ ~config.dry_run => FutureOf(ListedType, candidates[i]) # {}

\* reap_containers, called without an age bound, has returned: a container
\* listed without creation time was removed, and a container listed
\* without id is not among the returned resources.
C16_Witness ==
    /\ kind = "containers"
    /\ ~HasAgeBound
    /\ ~config.dry_run
    /\ result.tag = "Ok"
    /\ \E i \in 1 .. Len(candidates) : MissingIdentity(candidates[i])
    /\ Len(OfType(result.val, "Container")) < Len(candidates)
    /\ \E i \in 1 .. Len(candidates) : \E j \in 1 .. Len(result.val) :
          /\ CreationFault(candidates[i]) = "missing"
          /\ result.val[j].resource_type = "Container"
          /\ result.val[j].id = candidates[i]
          /\ result.val[j].status = "Success"
          /\ candidates[i] \notin containers

\* The candidates the engine listed with an id or name, in listing order.
Identified == SelectSeq(candidates, LAMBDA k : ~MissingIdentity(k))

\* C17: when neither min_age nor max_age is set, the call never reads the
\* wall clock, and the age filter drops nothing: the eligible resources of
\* the listed type are the listed candidates (those listed with an id or
\* name), in listing order, whatever their creation timestamps.
C17_NoBoundNoClock ==
    (kind # "none" /\ ~HasAgeBound) =>
        /\ clock_reads = 0
        /\ wall_clock = Unread
        /\ result.tag # "Panic"
        /\ result # Err("InvalidSystemTime")
        /\ Listed =>
              LET mine == OfType(eligible_resources, ListedType)
              IN /\ Len(mine) = Len(Identified)
                 /\ \A i \in 1 .. Len(mine) : mine[i].id = Identified[i]

\* reap_volumes, called without age bounds, has returned every volume the
\* engine listed, one without creation time and one whose timestamp does
\* not parse among them, and the clock was not read.
C17_Witness ==
    /\ kind = "volumes"
    /\ ~HasAgeBound
    /\ result.tag = "Ok"
    /\ clock_reads = 0
    /\ Len(result.val) = Len(candidates)
    /\ Faulty("missing") # {}
    /\ Faulty("unparseable") # {}
    /\ Faulty("none") # {}

\* C18: whichever orchestrator is called, when an age bound is configured
\* and the wall clock is unavailable, the call returns a ReapError, and no
\* removal future exists and the engine holds what it held at the start.
C18_ClockFailureIsReapError ==
    (kind # "none" /\ wall_clock.tag = "Err") =>
        /\ HasAgeBound
        /\ result.tag = "Err"
        /\ futures = NoFutures
        /\ containers = initial.containers
        /\ networks = initial.networks
        /\ volumes = initial.volumes

\* The engine failed the call's list request: it has injected a failure
\* and no removal request exists that it could have failed.
ListFailed == kind # "none" /\ faults > 0 /\ futures = NoFutures

\* C19: whichever orchestrator is called, when the engine fails the list
\* request the call returns ReapError::Docker and no list of resources:
\* nothing was listed, no resource is eligible, the clock is not read, no
\* removal future exists, and the engine holds what it held at the start.
C19_ListFailureIsFatal ==
    ListFailed =>
        /\ pc = "done"
        /\ result = Err("Docker")
        /\ result.val = <<>>
        /\ candidates = <<>>
        /\ eligible_resources = <<>>
        /\ removed_resources = <<>>
        /\ list_calls = 1
        /\ clock_reads = 0
        /\ containers = initial.containers
        /\ networks = initial.networks
        /\ volumes = initial.volumes

\* reap_volumes, called with an age bound on an engine holding volumes, has
\* returned ReapError::Docker after its list request failed.
C19_Witness ==
    /\ kind = "volumes"
    /\ HasAgeBound
    /\ ~config.dry_run
    /\ ListFailed
    /\ result = Err("Docker")
    /\ volumes # {}

\* C20: eq answers true exactly when the two Resources have the same
\* resource_type and the same id; giving either of them any other name or
\* status does not change the answer, and two Resources of different
\* types are unequal even with the same id, name and status.
C20_EqualityIsTypeAndId ==
    eq_result.some =>
        LET a == resources_arg[1]
            b == resources_arg[2]
        IN /\ eq_result.val <=> (a.resource_type = b.resource_type /\ a.id = b.id)
           /\ \A n \in ResourceNames : \A st \in RemovalStatuses :
                 /\ eq([a EXCEPT !.name = n, !.status = st], b) = eq_result.val
                 /\ eq(a, [b EXCEPT !.name = n, !.status = st]) = eq_result.val
           /\ a.resource_type # b.resource_type => ~eq_result.val

\* eq has answered true for a Resource with an empty name and status
\* Eligible (as the dry_run test builds it) and one of the same type and
\* id with another name and another status.
C20_Witness ==
    /\ eq_result.some
    /\ eq_result.val
    /\ resources_arg[1].name = ""
    /\ resources_arg[1].status = "Eligible"
    /\ resources_arg[2].name # ""
    /\ resources_arg[2].status = "Success"

\* C21: in a non-dry-run call every eligible resource owns one removal
\* future; a future sends at most one remove request (none once it has an
\* answer) and writes the status once, when it completes; and when the call
\* has returned every future has sent its one request and written its one
\* status, and no returned resource is still Eligible.
C21_OneRequestOneStatus ==
    (kind # "none" /\ ~config.dry_run) =>
        /\ \A t \in ResourceTypes : \A i \in 1 .. Len(Futs(t)) :
              /\ Futs(t)[i].requests = (IF Futs(t)[i].st = "created" THEN 0 ELSE 1)
              /\ Futs(t)[i].writes = (IF Futs(t)[i].st = "done" THEN 1 ELSE 0)
              /\ Futs(t)[i].st # "done" => Futs(t)[i].resource.status = "Eligible"
        /\ pc \in {"join_containers", "join_networks", "join_volumes"} =>
              \A t \in ResourceTypes :
                 Len(Futs(t)) = Len(OfType(eligible_resources, t))
        /\ result.tag = "Ok" =>
              /\ \A t \in ResourceTypes :
                    /\ Len(Futs(t)) = Len(OfType(eligible_resources, t))
                    /\ \A i \in 1 .. Len(Futs(t)) :
                          Futs(t)[i].requests = 1 /\ Futs(t)[i].writes = 1
              /\ Len(result.val) = Len(eligible_resources)
              /\ \A j \in 1 .. Len(result.val) : result.val[j].status # "Eligible"

\* A call has returned three or more resources, one of them with status
\* Error after the engine failed its request, each requested once.
C21_Witness ==
    /\ ~config.dry_run
    /\ result.tag = "Ok"
    /\ Len(result.val) >= 3
    /\ \E j \in 1 .. Len(result.val) : result.val[j].status = "Error"
    /\ \A t \in ResourceTypes : \A i \in 1 .. Len(Futs(t)) : Futs(t)[i].requests = 1

\* C22: once Resource::remove has completed, the resource's status is
\* Success or Error, whatever the resource type and the engine's answer.
C22_SuccessOrError ==
    \A t \in ResourceTypes : \A i \in 1 .. Len(Futs(t)) :
        Futs(t)[i].st = "done" => Futs(t)[i].resource.status \in {"Success", "Error"}

\* Every removal future the call created has completed.
AllRemovalsComplete ==
    \A t \in ResourceTypes : \A i \in 1 .. Len(Futs(t)) : Futs(t)[i].st = "done"

\* C23: with the engine answering and the futures polled fairly, a call
\* that was made eventually returns, a list of resources or a ReapError,
\* and it has returned only when every removal future it created is
\* complete.
C23_EventuallyReturns ==
    /\ (kind # "none") ~> (result.tag \in {"Ok", "Err"})
    /\ [](pc = "done" => (result.tag \in {"Ok", "Err"} /\ AllRemovalsComplete))

\* A removal future has sent its request and has not completed.
RemovalStalled ==
    \E t \in ResourceTypes : \E i \in 1 .. Len(Futs(t)) : Futs(t)[i].st = "requested"

\* C24: when a removal never completes, the call returns
\* ReapError::TaskFailure.
C24_TaskFailureReturned ==
    (<>[]RemovalStalled) => <>(result = Err("TaskFailure"))

\* reap_containers has built its list of resources and has not failed.
Cascaded == kind = "containers" /\ pc \notin {"idle", "list"} /\ result.tag \in {"Pending", "Ok"}

\* C25: every Network resource reap_containers adds by cascading is
\* orphaned by the removal of the eligible containers: each container the
\* engine held attached to it is one of the eligible containers.
C25_CascadeOnlyOrphans ==
    Cascaded =>
        \A i \in 1 .. Len(eligible_resources) :
            eligible_resources[i].resource_type = "Network" =>
                \A k \in AttachedAtStart(eligible_resources[i].id) :
                    In(eligible_resources, "Container", k)

\* C26: in reap_containers, a cascaded network the engine holds with a
\* container still attached is not removed: the engine keeps it, the answer
\* to its remove request is not a success, its Resource does not get status
\* Success, and the call, once every future is done, returns Ok.
C26_AttachedNetworkKept ==
    kind = "containers" =>
        /\ \A i \in 1 .. Len(Futs("Network")) :
              LET f == Futs("Network")[i]
              IN (f.resource.id \in initial.networks /\ Endpoints(f.resource.id) # {}) =>
                    /\ f.resource.id \in networks
                    /\ f.st # "created" => f.code \notin {204, 404}
                    /\ f.resource.status # "Success"
        /\ (pc = "done" /\ futures # NoFutures) => result.tag = "Ok"

\* reap_containers has returned Ok: a cascaded network to which a container
\* that was not eligible is still attached was refused by the engine and
\* has status Error, and another cascaded network, whose only container's
\* removal failed, was refused as well.
C26_Witness ==
    /\ kind = "containers"
    /\ result.tag = "Ok"
    /\ \E i \in 1 .. Len(Futs("Network")) :
          LET f == Futs("Network")[i]
          IN /\ f.code = 403
             /\ f.resource.status = "Error"
             /\ f.resource.id \in networks
             /\ \E k \in Endpoints(f.resource.id) : ~In(eligible_resources, "Container", k)
    /\ \E i \in 1 .. Len(Futs("Network")) :
          LET f == Futs("Network")[i]
          IN /\ f.code = 403
             /\ f.resource.id \in networks
             /\ \A k \in Endpoints(f.resource.id) : In(eligible_resources, "Container", k)

\* Network n would pass reap_networks' own selection under the call's
\* config: it carries every label given and, with an age bound configured,
\* its age lies in the window.
NetworkSelectable(n) ==
    /\ \A i \in 1 .. Len(config.filters) :
          config.filters[i].name = "label" => config.filters[i].value \in NetworkSummary(n).labels
    /\ HasAgeBound =>
          /\ NetworkSummary(n).created.some
          /\ NetworkSummary(n).created.val.rfc3339
          /\ Now - NetworkSummary(n).created.val.instant
                > (IF config.min_age.some THEN config.min_age.val ELSE 0)
          /\ Now - NetworkSummary(n).created.val.instant
                < (IF config.max_age.some THEN config.max_age.val ELSE DurationMAX)

\* C27: reap_containers with reap_networks set sends one list request, the
\* container one, and includes every network attached to an eligible
\* container whether or not the network itself matches the filters and
\* the age window; in a run that is not dry each of them has had its
\* removal requested when the call returns.
C27_CascadeIgnoresNetworkAge ==
    (Cascaded /\ config.reap_networks) =>
        /\ list_calls = 1
        /\ \A i \in 1 .. Len(eligible_resources) :
              eligible_resources[i].resource_type = "Container" =>
                 \A n \in ContainerSummary(eligible_resources[i].id).networks :
                    /\ In(eligible_resources, "Network", n)
                    /\ (result.tag = "Ok" /\ ~config.dry_run) =>
                          \E j \in FutureOf("Network", n) : Futs("Network")[j].requests = 1

\* reap_containers, called with an age window, has returned a cascaded
\* network whose own age lies outside the window, its removal requested.
C27_Witness ==
    /\ kind = "containers"
    /\ config.reap_networks
    /\ ~config.dry_run
    /\ config.min_age.some
    /\ config.max_age.some
    /\ result.tag = "Ok"
    /\ \E j \in 1 .. Len(Futs("Network")) :
          /\ ~NetworkSelectable(Futs("Network")[j].resource.id)
          /\ Futs("Network")[j].requests = 1
          /\ In(result.val, "Network", Futs("Network")[j].resource.id)

\* The (resource_type, id) pairs of a Vec<Resource>.
Pairs(rs) == {<<rs[i].resource_type, rs[i].id>> : i \in 1 .. Len(rs)}

\* What the engine state at the start, the clock reading and the config
\* without its dry_run flag determine: the resources of the listed type
\* that match the filters, have an id and, under an age bound, an age in the
\* window; and, for reap_containers with reap_networks, their networks.
SelectedIds ==
    {k \in HeldAtStart :
        /\ \A i \in 1 .. Len(config.filters) :
              config.filters[i].name = "label" => config.filters[i].value \in LabelsOf(k)
        /\ ~MissingIdentity(k)
        /\ HasAgeBound =>
              /\ AgeOf(k) > (IF config.min_age.some THEN config.min_age.val ELSE 0)
              /\ AgeOf(k) < (IF config.max_age.some THEN config.max_age.val ELSE DurationMAX)}
SelectedPairs ==
    {<<ListedType, k>> : k \in SelectedIds}
        \cup (IF kind = "containers" /\ config.reap_networks
              THEN {<<"Network", n>> : n \in UNION {ContainerSummary(k).networks : k \in SelectedIds}}
              ELSE {})

\* C28: the (resource_type, id) pairs a call returns are those the engine
\* state at the start, the clock reading and the config apart from dry_run
\* determine, so a dry run and a run that is not dry, made on the same
\* engine state with the same clock reading and otherwise the same config,
\* return the same set of pairs.
C28_DryRunReportsRealRun ==
    result.tag = "Ok" => Pairs(result.val) = SelectedPairs

\* A run that is not dry has returned two containers and two networks,
\* one of each removed with success, after another client removed one of
\* them first; a dry run returns the same pairs.
C28_Witness ==
    /\ kind = "containers"
    /\ ~config.dry_run
    /\ config.reap_networks
    /\ result.tag = "Ok"
    /\ external > 0
    /\ Cardinality(SelectedPairs) >= 4
    /\ Pairs(result.val) = SelectedPairs
    /\ \E i \in 1 .. Len(result.val) : result.val[i].status = "Success"

\* The resource of removal future f of type t was removed by another client
\* of the engine after the call's list request and before the future's own
\* remove request: the engine held it at the start, no longer holds it, and
\* did not remove it at this call's request.
RemovedByOther(t, f) ==
    /\ f.st # "created"
    /\ f.code # 204
    /\ f.resource.id \in (CASE t = "Container" -> initial.containers
                             [] t = "Network" -> initial.networks
                             [] OTHER -> initial.volumes)
    /\ f.resource.id \notin Held(t)

C30_RunLoopSurvivesRuns ==
    /\ main_pc \in {"loop", "call"} => calls = runs - (IF main_pc = "call" THEN 1 ELSE 0)
    /\ main_pc \in {"await", "sleeping", "exited"} => calls = runs
    /\ every.some => main_pc # "exited"
    /\ main_pc = "sleeping" => every.some
    /\ (~every.some /\ main_pc = "exited") =>
          /\ runs = 1
          /\ calls = 1
          /\ exit_status = "success"
    /\ (~every.some /\ runs > 0) => runs = 1

====
